---------------------------- MODULE Spec2Model ----------------------------
(***************************************************************************)
(* Model of samples/bluetooth/peripheral_fuzz/src/main.c: the custom GATT  *)
(* characteristic's backing buffer (read_custom / write_custom) and the    *)
(* connect / disconnect / re-advertise flow between the Bluetooth callback *)
(* context and main()'s loop.                                              *)
(*                                                                         *)
(* The specifications share one Init:                                      *)
(*   StoreSpec  the attribute read and write callbacks on custom_value     *)
(*   Spec       main(), bt_ready, connected and disconnected               *)
(*   FairSpec   Spec with the fairness the kernel's scheduling gives       *)
(***************************************************************************)
EXTENDS Integers, Sequences, FiniteSets, TLC

VARIABLES
    custom_value,   \* main.c:116  the 512-byte buffer: index |-> byte, for
                    \* the bytes that are not zero
    last,           \* the last attribute operation: its arguments and result
    lastWrite,      \* the last write_custom call: its arguments and result
    nWrites,        \* number of write_custom calls so far
    state,          \* main.c:35   the bits set in the atomic bitmap `state`
    semmari,        \* main.c:22   the semaphore's count
    pc,             \* where main() is
    cb,             \* the callback the Bluetooth stack is running, and the
                    \* statements of it still to run
    readyPending,   \* bt_enable has accepted bt_ready and not yet called it
    log,            \* what has been requested of the stack so far (history)
    auth,           \* the last pairing callback: its arguments and the calls
                    \* it made to the stack
    hrf_ntf_enabled \* main.c:21

storeVars == <<custom_value, last, lastWrite, nWrites>>

connVars == <<state, semmari, pc, cb, readyPending, log>>

policyVars == <<auth, hrf_ntf_enabled>>

vars == <<storeVars, connVars, policyVars>>

(***************************************************************************)
(* Bounds of the model                                                     *)
(***************************************************************************)
MaxWrites == 2
MaxDisconnects == 3
MaxConnects == 2

\* offsets and lengths the transport layer passes (uint16_t arguments)
WriteOffsets == {0, 20, 500, 502, 512, 65535}
WriteLens == {0, 10, 20, 64, 513}
ReadOffsets == {0, 20, 500, 512, 513}
ReadLens == {0, 10, 65535}
Seeds == {1, 2}

(***************************************************************************)
(* AttributeStore                                                          *)
(***************************************************************************)
\* sizeof(custom_value)
CustomValueSize == 512

\* BT_GATT_ERR(BT_ATT_ERR_INVALID_OFFSET): the negative ssize_t a callback
\* returns instead of a byte count, -(0x07)
InvalidOffset == -7

Min(a, b) == IF a <= b THEN a ELSE b

(* A byte array is kept as the function from the indices of its non-zero     *)
(* bytes to those bytes; every other byte is 0. Pack brings an array to that *)
(* form, so that two arrays are equal exactly when their bytes are. An index *)
(* outside 0..CustomValueSize-1 in custom_value is a store past the array.   *)
Pack(f) == [i \in {j \in DOMAIN f : f[j] # 0} |-> f[i]]

Byte(b, i) == IF i \in DOMAIN b THEN b[i] ELSE 0

\* "Initial value" in ASCII; the rest of the array is zero-initialised
InitialString == <<73, 110, 105, 116, 105, 97, 108, 32, 118, 97, 108, 117, 101>>

InitialValue ==
    Pack([i \in 0..(CustomValueSize - 1) |->
            IF i < Len(InitialString) THEN InitialString[i + 1] ELSE 0])

\* the i-th byte of the peer's data, chosen by seed; never zero
DataByte(seed, i) == ((seed * 37 + i) % 255) + 1

\* the len bytes at buf, as the array memcpy reads
Buf(seed, len) == [i \in 0..(len - 1) |-> DataByte(seed, i)]

\* the same bytes as the sequence a read hands back
DataSeq(seed, len) == [k \in 1..len |-> DataByte(seed, k - 1)]

\* memset(dst, c, n) with n = sizeof(dst)
memset(dst, c, n) ==
    Pack([i \in (DOMAIN dst) \cup (0..(n - 1)) |->
            IF i < n THEN c ELSE dst[i]])

\* memcpy(dst + off, src, n)
memcpy(dst, off, src, n) ==
    Pack([i \in (DOMAIN dst) \cup (off..(off + n - 1)) |->
            IF off <= i /\ i < off + n THEN src[i - off] ELSE dst[i]])

\* offset + len computed in 16 bits, as uint16_t arithmetic would
Sum_uint16(offset, len) == (offset + len) % 65536

\* offset + len: both uint16_t, promoted to int (32 bits) before the addition,
\* so the sum is at most 131070 and is exact; the conversion to size_t for the
\* comparison with sizeof keeps its value
Sum(offset, len) == offset + len

\* bt_gatt_attr_read(conn, attr, buf, buf_len, offset, value, value_len)
bt_gatt_attr_read(buf_len, offset, value, value_len) ==
    IF offset > value_len
    THEN [ret |-> InvalidOffset, out |-> <<>>]
    ELSE LET n == Min(buf_len, value_len - offset)
         IN  [ret |-> n, out |-> [i \in 1..n |-> Byte(value, offset + i - 1)]]

\* read_custom with sizeof(value), the size of the pointer, as the value length
read_custom_pointer_size(value, len, offset) ==
    bt_gatt_attr_read(len, offset, value, 4)

\* read_custom(conn, attr, buf, len, offset), attr->user_data = custom_value
read_custom(value, len, offset) ==
    bt_gatt_attr_read(len, offset, value, CustomValueSize)

\* write_custom with the copy at value instead of value + offset
write_custom_ignores_offset(value, seed, len, offset) ==
    LET cleared == IF offset = 0 THEN memset(value, 0, CustomValueSize) ELSE value
    IN  IF Sum(offset, len) > CustomValueSize
        THEN [value |-> cleared, ret |-> InvalidOffset]
        ELSE [value |-> memcpy(cleared, 0, Buf(seed, len), len), ret |-> len]

\* write_custom without the memset at offset 0
write_custom_no_reset(value, seed, len, offset) ==
    IF Sum(offset, len) > CustomValueSize
    THEN [value |-> value, ret |-> InvalidOffset]
    ELSE [value |-> memcpy(value, offset, Buf(seed, len), len), ret |-> len]

\* write_custom with the reset done whatever the offset is
write_custom_clears_always(value, seed, len, offset) ==
    LET cleared == memset(value, 0, CustomValueSize)
    IN  IF Sum(offset, len) > CustomValueSize
        THEN [value |-> cleared, ret |-> InvalidOffset]
        ELSE [value |-> memcpy(cleared, offset, Buf(seed, len), len), ret |-> len]

\* write_custom(conn, attr, buf, len, offset, flags): the buffer after the
\* call and the value returned
write_custom(value, seed, len, offset) ==
    LET cleared == IF offset = 0 THEN memset(value, 0, CustomValueSize) ELSE value
    IN  IF Sum(offset, len) > CustomValueSize
        THEN [value |-> cleared, ret |-> InvalidOffset]
        ELSE [value |-> memcpy(cleared, offset, Buf(seed, len), len), ret |-> len]

NoOp == [kind |-> "none", offset |-> 0, len |-> 0, seed |-> 0, ret |-> 0,
         out |-> <<>>, before |-> InitialValue]

NoWrite == [kind |-> "none", offset |-> 0, len |-> 0, seed |-> 0, ret |-> 0,
            stale |-> FALSE]

\* whether buffer b holds a non-zero byte at an index >= n
StaleTail(b, n) == \E i \in n..(CustomValueSize - 1) : Byte(b, i) # 0

InitStore ==
    /\ custom_value = InitialValue
    /\ last = NoOp
    /\ lastWrite = NoWrite
    /\ nWrites = 0

\* the transport layer dispatches a write to the characteristic
WriteCustom ==
    /\ nWrites < MaxWrites
    /\ \E offset \in WriteOffsets, len \in WriteLens, seed \in Seeds :
         \E r \in {write_custom(custom_value, seed, len, offset)} :
             /\ custom_value' = r.value
             /\ last' = [kind |-> "write", offset |-> offset, len |-> len,
                         seed |-> seed, ret |-> r.ret, out |-> <<>>,
                         before |-> custom_value]
             /\ lastWrite' = [kind |-> "write", offset |-> offset, len |-> len,
                              seed |-> seed, ret |-> r.ret,
                              stale |-> StaleTail(custom_value, len)]
    /\ nWrites' = nWrites + 1
    /\ UNCHANGED <<connVars, policyVars>>

\* the transport layer dispatches a read of the characteristic
ReadCustom ==
    /\ \E offset \in ReadOffsets, len \in ReadLens :
         \E r \in {read_custom(custom_value, len, offset)} :
             last' = [kind |-> "read", offset |-> offset, len |-> len,
                      seed |-> 0, ret |-> r.ret, out |-> r.out,
                      before |-> custom_value]
    /\ UNCHANGED <<custom_value, lastWrite, nWrites>>
    /\ UNCHANGED <<connVars, policyVars>>

NextStore == WriteCustom \/ ReadCustom

(***************************************************************************)
(* ConnectionTracker, AdvertiserController and main()                      *)
(***************************************************************************)
STATE_CONNECTED == 1
STATE_DISCONNECTED == 2

\* a semaphore that counts up to two
SemLimit_two == 1 + 1

\* k_sem_init(&semmari, 0, 1): initial count and limit
SemInitialCount == 0
SemLimit == 1

\* outcomes the stack can report: 0 is success
Errnos == {0, -5}           \* int err of bt_enable, bt_ready, bt_le_adv_start
HciErrs == {0, 62}          \* uint8_t err of the connected callback

\* k_sem_give: the count goes up by one, up to the limit
k_sem_give(count) == IF count < SemLimit THEN count + 1 ELSE count

\* k_sem_take(K_FOREVER): blocks while the count is 0, then takes one
CanTake(count) == count > 0
k_sem_take(count) == count - 1

\* atomic_set_bit
atomic_set_bit(bits, bit) == bits \cup {bit}

\* atomic_test_and_clear_bit: the old value of the bit and the bitmap after,
\* in one indivisible step
atomic_test_and_clear_bit(bits, bit) == [old |-> bit \in bits, new |-> bits \ {bit}]

\* connected() that does not look at err
connectedBody_ignores_err(err) == <<"set_connected", "param_update">>

\* a connected() that leaves the bitmap alone
connectedBody_no_flag(err) == IF err # 0 THEN <<>> ELSE <<"param_update">>

\* a connected() that also gives the semaphore once its flag is set
connectedBody_gives(err) ==
    IF err # 0 THEN <<>> ELSE <<"set_connected", "give", "param_update">>

\* connected(conn, err): the statements it runs, in order
connectedBody(err) ==
    IF err # 0 THEN <<>> ELSE <<"set_connected", "param_update">>

\* disconnected() with the semaphore given before the flag is set
disconnectedBody_give_before_set == <<"unpair", "give", "set_disconnected">>

\* disconnected() with the unpair request after the flag and the signal
disconnectedBody_unpair_last == <<"set_disconnected", "give", "unpair">>

\* disconnected(conn, reason): the statements it runs, in order
disconnectedBody == <<"unpair", "set_disconnected", "give">>

\* bt_ready(err): the statements it runs, whatever err is
bt_readyBody(err) == <<"give">>

Idle == [fn |-> "none", todo |-> <<>>]

\* disconnected() returning when bt_unpair fails
after_unpair_return_on_err(err, rest) == IF err # 0 THEN <<>> ELSE rest

\* disconnected() after bt_unpair returned err: the result is not looked at
after_unpair(err, rest) == rest

\* connected() after bt_conn_le_param_update returned err: the result is not
\* looked at
after_param_update(err, rest) == rest

\* static const struct bt_data ad[]: the advertising data
ad == <<[type |-> "BT_DATA_FLAGS", data |-> "BT_LE_AD_GENERAL | BT_LE_AD_NO_BREDR"],
        [type |-> "BT_DATA_UUID16_ALL", data |-> "BT_UUID_HRS_VAL"],
        [type |-> "BT_DATA_UUID16_ALL", data |-> "0x2AFF"]>>

\* static const struct bt_data sd[]: the scan response data
sd == <<[type |-> "BT_DATA_NAME_COMPLETE", data |-> "CONFIG_BT_DEVICE_NAME"]>>

\* the arguments of a bt_le_adv_start call; the length passed with each array
\* is ARRAY_SIZE of it
AdvCall(param, adv, scan) ==
    [param |-> param, ad |-> adv, ad_len |-> Len(adv), sd |-> scan, sd_len |-> Len(scan)]

\* the arguments of the boot-time bt_le_adv_start, main.c:209
boot_adv_args == AdvCall("BT_LE_ADV_CONN_FAST_1", ad, sd)

\* the loop restarting advertising without the scan response
loop_adv_args_no_scan_response == AdvCall("BT_LE_ADV_CONN_FAST_1", ad, <<>>)

\* the arguments of the loop's bt_le_adv_start, main.c:221-222
loop_adv_args == AdvCall("BT_LE_ADV_CONN_FAST_1", ad, sd)

\* the connections and the passkeys the stack hands to the pairing callbacks
Conns == {1, 2}
Passkeys == {0, 123456}

\* main.c:77-84: prints, calls nothing
auth_cancel(conn) == <<>>

\* main.c:86-90
enter_passkey(conn) == <<[call |-> "bt_conn_auth_passkey_entry", args |-> <<conn, 0>>]>>

\* a callback that confirms only the passkey it expects
confirm_passkey_compares(conn, passkey) ==
    IF passkey = 0
    THEN <<[call |-> "bt_conn_auth_passkey_confirm", args |-> <<conn>>]>>
    ELSE <<[call |-> "bt_conn_auth_cancel", args |-> <<conn>>]>>

\* main.c:92-96: passkey is not looked at
confirm_passkey(conn, passkey) ==
    <<[call |-> "bt_conn_auth_passkey_confirm", args |-> <<conn>>]>>

\* main.c:98-102
confirm_pairing(conn) == <<[call |-> "bt_conn_auth_pairing_confirm", args |-> <<conn>>]>>

\* main.c:104-107: empty
auth_passkey_display(conn, passkey) == <<>>

\* main.c:68-71
hrs_ntf_changed(enabled) == enabled

\* a loop that tests and clears the other bit
loop_test_bit_connected == STATE_CONNECTED

\* the bit main() tests and clears, main.c:219
loop_test_bit == STATE_DISCONNECTED

\* main() after bt_enable returned err
bt_enable_next(err) == IF err # 0 THEN "exited" ELSE "wait_ready"

\* main() after the boot-time bt_le_adv_start returned err
boot_adv_next(err) == IF err # 0 THEN "exited" ELSE "loop_take"

\* the loop going on after a failed restart
loop_adv_next_continue(err) == "loop_take"

\* main() after the loop's bt_le_adv_start returned err
loop_adv_next(err) == IF err # 0 THEN "exited" ELSE "loop_take"

\* the loop restarting advertising on every wake-up
loop_test_next_always(wasSet) == "loop_adv"

\* main() after atomic_test_and_clear_bit(state, STATE_DISCONNECTED)
loop_test_next(wasSet) == IF wasSet THEN "loop_adv" ELSE "loop_take"

InitLog ==
    [enableErr |-> FALSE,   \* bt_enable returned an error
     readyErr |-> FALSE,    \* bt_ready was called with an error
     bootUnpairs |-> 0,     \* bt_unpair calls of main()
     registered |-> 0,      \* bt_gatt_service_register calls
     regFailed |-> FALSE,   \* one of them returned an error
     advStarts |-> 0,       \* bt_le_adv_start calls, boot and loop
     advOk |-> 0,           \* those that returned 0
     advArgs |-> {},        \* the arguments they were called with
     advFailed |-> FALSE,   \* one returned an error
     restarts |-> 0,        \* bt_le_adv_start calls of the loop
     connOk |-> 0,          \* connected(err = 0) events
     connFail |-> 0,        \* connected(err # 0) events
     connSets |-> 0,        \* times STATE_CONNECTED was set
     paramUpdates |-> 0,    \* bt_conn_le_param_update calls
     paramFailed |-> FALSE, \* one of them returned an error
     discEvents |-> 0,      \* disconnected events
     unpairs |-> 0,         \* bt_unpair calls of disconnected()
     unpairFailed |-> FALSE,\* one of them returned an error
     flagSets |-> 0,        \* times disconnected() set STATE_DISCONNECTED
     gives |-> 0,           \* k_sem_give calls of disconnected()
     connGives |-> 0,       \* k_sem_give calls of connected()
     saturated |-> FALSE,   \* k_sem_give was called with the count at its limit
     spurious |-> FALSE,    \* the loop woke up and found STATE_DISCONNECTED clear
     batches |-> 0,         \* times STATE_DISCONNECTED went from clear to set
     pending |-> 0,         \* flag sets since the last test-and-clear
     consumed |-> 0,        \* flag sets the last test-and-clear consumed
     served |-> 0,          \* flag sets consumed by a restart already issued
     setsAfterExit |-> 0]   \* flag sets after main() returned

InitConn ==
    /\ state = {}
    /\ semmari = 0
    /\ pc = "k_sem_init"
    /\ cb = Idle
    /\ readyPending = FALSE
    /\ log = InitLog

\* no pairing callback has run
NoAuth == [req |-> "none", conn |-> 0, args |-> <<>>, replies |-> <<>>]

InitPolicy ==
    /\ auth = NoAuth
    /\ hrf_ntf_enabled = FALSE

Init == InitStore /\ InitConn /\ InitPolicy

(* ---- main() ---- *)

\* main.c:179
MainSemInit ==
    /\ pc = "k_sem_init"
    /\ semmari' = SemInitialCount
    /\ pc' = "bt_enable"
    /\ UNCHANGED <<state, cb, readyPending, log, storeVars, policyVars>>

\* main.c:181-184
MainEnable ==
    /\ pc = "bt_enable"
    /\ \E err \in Errnos :
         /\ pc' = bt_enable_next(err)
         /\ readyPending' = (err = 0)
         /\ log' = [log EXCEPT !.enableErr = (err # 0)]
    /\ UNCHANGED <<state, semmari, cb, storeVars, policyVars>>

\* main.c:185
MainWaitReady ==
    /\ pc = "wait_ready"
    /\ CanTake(semmari)
    /\ semmari' = k_sem_take(semmari)
    /\ pc' = "bt_unpair"
    /\ UNCHANGED <<state, cb, readyPending, log, storeVars, policyVars>>

\* main.c:187-190: the result is only logged
MainUnpair ==
    /\ pc = "bt_unpair"
    /\ pc' = "register_fuzz"
    /\ log' = [log EXCEPT !.bootUnpairs = @ + 1]
    /\ UNCHANGED <<state, semmari, cb, readyPending, storeVars, policyVars>>

\* main.c:199: the result is not looked at
MainRegisterFuzz ==
    /\ pc = "register_fuzz"
    /\ \E err \in Errnos :
         /\ pc' = "register_inclusion"
         /\ log' = [log EXCEPT !.registered = @ + 1,
                               !.regFailed = @ \/ (err # 0)]
    /\ UNCHANGED <<state, semmari, cb, readyPending, storeVars, policyVars>>

\* main.c:200-206: the result is not looked at
MainRegisterInclusion ==
    /\ pc = "register_inclusion"
    /\ \E err \in Errnos :
         /\ pc' = "adv_start"
         /\ log' = [log EXCEPT !.registered = @ + 1,
                               !.regFailed = @ \/ (err # 0)]
    /\ UNCHANGED <<state, semmari, cb, readyPending, storeVars, policyVars>>

\* main.c:208-215
MainAdvStart ==
    /\ pc = "adv_start"
    /\ \E err \in Errnos :
         /\ pc' = boot_adv_next(err)
         /\ log' = [log EXCEPT !.advStarts = @ + 1,
                               !.advArgs = @ \cup {boot_adv_args},
                               !.advOk = IF err = 0 THEN @ + 1 ELSE @,
                               !.advFailed = @ \/ (err # 0)]
    /\ UNCHANGED <<state, semmari, cb, readyPending, storeVars, policyVars>>

\* main.c:218
MainLoopTake ==
    /\ pc = "loop_take"
    /\ CanTake(semmari)
    /\ semmari' = k_sem_take(semmari)
    /\ pc' = "loop_test"
    /\ UNCHANGED <<state, cb, readyPending, log, storeVars, policyVars>>

\* main.c:219
MainLoopTest ==
    /\ pc = "loop_test"
    /\ \E r \in {atomic_test_and_clear_bit(state, loop_test_bit)} :
         /\ state' = r.new
         /\ pc' = loop_test_next(r.old)
         /\ log' = [log EXCEPT !.consumed = log.pending, !.pending = 0,
                               !.spurious = @ \/ ~r.old]
    /\ UNCHANGED <<semmari, cb, readyPending, storeVars, policyVars>>

\* main.c:220-226
MainLoopAdv ==
    /\ pc = "loop_adv"
    /\ \E err \in Errnos :
         /\ pc' = loop_adv_next(err)
         /\ log' = [log EXCEPT !.advStarts = @ + 1,
                               !.advArgs = @ \cup {loop_adv_args},
                               !.advOk = IF err = 0 THEN @ + 1 ELSE @,
                               !.advFailed = @ \/ (err # 0),
                               !.restarts = @ + 1,
                               !.served = @ + log.consumed,
                               !.consumed = 0]
    /\ UNCHANGED <<state, semmari, cb, readyPending, storeVars, policyVars>>

MainStep ==
    \/ MainSemInit
    \/ MainEnable
    \/ MainWaitReady
    \/ MainUnpair
    \/ MainRegisterFuzz
    \/ MainRegisterInclusion
    \/ MainAdvStart
    \/ MainLoopTake
    \/ MainLoopTest
    \/ MainLoopAdv

(* ---- the Bluetooth stack's callback context ---- *)

\* connections exist only once advertising has been started
ConnEventsPossible == log.advOk > 0

\* the stack finishes its bring-up and calls bt_ready(err), main.c:161
ReadyEvent ==
    /\ readyPending
    /\ cb = Idle
    /\ \E err \in Errnos :
         /\ cb' = [fn |-> "bt_ready", todo |-> bt_readyBody(err)]
         /\ log' = [log EXCEPT !.readyErr = (err # 0)]
    /\ readyPending' = FALSE
    /\ UNCHANGED <<state, semmari, pc, storeVars, policyVars>>

\* the stack calls connected(conn, err), main.c:43-48
ConnectedEvent ==
    /\ ConnEventsPossible
    /\ cb = Idle
    /\ log.connOk + log.connFail < MaxConnects
    /\ \E err \in HciErrs :
         /\ cb' = [fn |-> IF connectedBody(err) = <<>> THEN "none" ELSE "connected",
                   todo |-> connectedBody(err)]
         /\ log' = [log EXCEPT !.connOk = IF err = 0 THEN @ + 1 ELSE @,
                               !.connFail = IF err # 0 THEN @ + 1 ELSE @]
    /\ UNCHANGED <<state, semmari, pc, readyPending, storeVars, policyVars>>

\* the stack calls disconnected(conn, reason), main.c:55-57
DisconnectedEvent ==
    /\ ConnEventsPossible
    /\ cb = Idle
    /\ log.discEvents < MaxDisconnects
    /\ cb' = [fn |-> "disconnected", todo |-> disconnectedBody]
    /\ log' = [log EXCEPT !.discEvents = @ + 1]
    /\ UNCHANGED <<state, semmari, pc, readyPending, storeVars, policyVars>>

\* the running callback with the statements todo left
Continue(todo) == IF todo = <<>> THEN Idle ELSE [cb EXCEPT !.todo = todo]

\* what is left of the running callback after its next statement
Rest == IF Len(cb.todo) = 1 THEN Idle ELSE [cb EXCEPT !.todo = Tail(@)]

Running(stmt) == cb.todo # <<>> /\ Head(cb.todo) = stmt

\* main.c:50
CbSetConnected ==
    /\ Running("set_connected")
    /\ state' = atomic_set_bit(state, STATE_CONNECTED)
    /\ cb' = Rest
    /\ log' = [log EXCEPT !.connSets = @ + 1]
    /\ UNCHANGED <<semmari, pc, readyPending, storeVars, policyVars>>

\* main.c:51: the result is not looked at
CbParamUpdate ==
    /\ Running("param_update")
    /\ \E err \in Errnos :
         /\ cb' = Continue(after_param_update(err, Tail(cb.todo)))
         /\ log' = [log EXCEPT !.paramUpdates = @ + 1,
                               !.paramFailed = @ \/ (err # 0)]
    /\ UNCHANGED <<state, semmari, pc, readyPending, storeVars, policyVars>>

\* main.c:58: the result is not looked at
CbUnpair ==
    /\ Running("unpair")
    /\ \E err \in Errnos :
         /\ cb' = Continue(after_unpair(err, Tail(cb.todo)))
         /\ log' = [log EXCEPT !.unpairs = @ + 1,
                               !.unpairFailed = @ \/ (err # 0)]
    /\ UNCHANGED <<state, semmari, pc, readyPending, storeVars, policyVars>>

\* main.c:59
CbSetDisconnected ==
    /\ Running("set_disconnected")
    /\ state' = atomic_set_bit(state, STATE_DISCONNECTED)
    /\ cb' = Rest
    /\ log' = [log EXCEPT !.flagSets = @ + 1,
                          !.pending = @ + 1,
                          !.batches = IF STATE_DISCONNECTED \in state THEN @ ELSE @ + 1,
                          !.setsAfterExit = IF pc = "exited" THEN @ + 1 ELSE @]
    /\ UNCHANGED <<semmari, pc, readyPending, storeVars, policyVars>>

\* main.c:60 and main.c:163
CbGive ==
    /\ Running("give")
    /\ semmari' = k_sem_give(semmari)
    /\ cb' = Rest
    /\ log' = [log EXCEPT !.gives = IF cb.fn = "disconnected" THEN @ + 1 ELSE @,
                          !.connGives = IF cb.fn = "connected" THEN @ + 1 ELSE @,
                          !.saturated = @ \/ (semmari >= SemLimit)]
    /\ UNCHANGED <<state, pc, readyPending, storeVars, policyVars>>

\* the running callback's next statement
CbStep ==
    \/ CbSetConnected
    \/ CbParamUpdate
    \/ CbUnpair
    \/ CbSetDisconnected
    \/ CbGive

\* the stack delivers an event
CbEvent ==
    \/ ReadyEvent
    \/ ConnectedEvent
    \/ DisconnectedEvent

(* ---- pairing and subscription callbacks, each a single step ---- *)

\* the stack calls them for a connection, between two other callbacks
PolicyEventsPossible == ConnEventsPossible /\ log.connOk > 0 /\ cb = Idle

\* auth_cb.cancel, main.c:110
AuthCancel ==
    /\ PolicyEventsPossible
    /\ \E conn \in Conns :
         auth' = [req |-> "cancel", conn |-> conn, args |-> <<>>,
                  replies |-> auth_cancel(conn)]
    /\ UNCHANGED <<hrf_ntf_enabled, connVars, storeVars>>

\* auth_cb.passkey_entry, main.c:112
AuthPasskeyEntry ==
    /\ PolicyEventsPossible
    /\ \E conn \in Conns :
         auth' = [req |-> "passkey_entry", conn |-> conn, args |-> <<>>,
                  replies |-> enter_passkey(conn)]
    /\ UNCHANGED <<hrf_ntf_enabled, connVars, storeVars>>

\* auth_cb.passkey_confirm, main.c:111
AuthPasskeyConfirm ==
    /\ PolicyEventsPossible
    /\ \E conn \in Conns, passkey \in Passkeys :
         auth' = [req |-> "passkey_confirm", conn |-> conn, args |-> <<passkey>>,
                  replies |-> confirm_passkey(conn, passkey)]
    /\ UNCHANGED <<hrf_ntf_enabled, connVars, storeVars>>

\* auth_cb.pairing_confirm, main.c:113
AuthPairingConfirm ==
    /\ PolicyEventsPossible
    /\ \E conn \in Conns :
         auth' = [req |-> "pairing_confirm", conn |-> conn, args |-> <<>>,
                  replies |-> confirm_pairing(conn)]
    /\ UNCHANGED <<hrf_ntf_enabled, connVars, storeVars>>

\* auth_cb.passkey_display, main.c:114
AuthPasskeyDisplay ==
    /\ PolicyEventsPossible
    /\ \E conn \in Conns, passkey \in Passkeys :
         auth' = [req |-> "passkey_display", conn |-> conn, args |-> <<passkey>>,
                  replies |-> auth_passkey_display(conn, passkey)]
    /\ UNCHANGED <<hrf_ntf_enabled, connVars, storeVars>>

\* hrs_cb.ntf_changed, main.c:73-75
HrsNtfChanged ==
    /\ PolicyEventsPossible
    /\ \E enabled \in BOOLEAN : hrf_ntf_enabled' = hrs_ntf_changed(enabled)
    /\ UNCHANGED <<auth, connVars, storeVars>>

PolicyEvent ==
    \/ AuthCancel
    \/ AuthPasskeyEntry
    \/ AuthPasskeyConfirm
    \/ AuthPairingConfirm
    \/ AuthPasskeyDisplay
    \/ HrsNtfChanged

\* main() and the connection callbacks
ConnNext == MainStep \/ CbStep \/ CbEvent

Next == MainStep \/ CbStep \/ CbEvent \/ PolicyEvent

Spec == Init /\ [][Next]_vars

StoreSpec == Init /\ [][NextStore]_vars

\* a ready thread runs: main() goes on whenever it is not blocked on the
\* semaphore, and a callback that was entered runs to its end.  The pairing
\* and subscription callbacks are single steps that change neither state,
\* semmari, pc nor cb, so the scheduling of main() and of the connection
\* callbacks is studied without them.
FairSpec == Init /\ [][ConnNext]_vars /\ WF_vars(MainStep) /\ WF_vars(CbStep)

(***************************************************************************)
(* AttributeStore: the claims                                              *)
(***************************************************************************)
Accepted(w) == w.kind = "write" /\ w.ret # InvalidOffset

AllZero(seq) == \A k \in 1..Len(seq) : seq[k] = 0

\* C1: a write with offset + len(data) > capacity, offset 0 included, returns
\* InvalidOffset and leaves custom_value byte for byte as it was before the call.
C1_RejectedWriteLeavesBufferUnchanged ==
    (last.kind = "write" /\ last.offset + last.len > CustomValueSize)
        => (last.ret = InvalidOffset /\ custom_value = last.before)

\* C2: a write with offset <= capacity and offset + len(data) <= capacity returns
\* len(data), and a read of len(data) bytes at the same offset, with no write in
\* between, returns exactly the data written.
C2_WriteThenReadReturnsData ==
    /\ (last.kind = "write" /\ last.offset <= CustomValueSize
            /\ last.offset + last.len <= CustomValueSize)
         => /\ last.ret = last.len
            /\ read_custom(custom_value, last.len, last.offset)
                 = [ret |-> last.len, out |-> DataSeq(last.seed, last.len)]
    /\ (last.kind = "read" /\ lastWrite.kind = "write"
            /\ lastWrite.offset <= CustomValueSize
            /\ lastWrite.offset + lastWrite.len <= CustomValueSize
            /\ last.offset = lastWrite.offset /\ last.len = lastWrite.len)
         => /\ lastWrite.ret = lastWrite.len
            /\ last.ret = lastWrite.len
            /\ last.out = DataSeq(lastWrite.seed, lastWrite.len)

\* C2 witness: write(500, 10 bytes) was accepted and the read(500, 10) after it
\* returned the ten bytes written.
C2_Witness ==
    /\ last.kind = "read" /\ last.offset = 500 /\ last.len = 10
    /\ lastWrite.kind = "write" /\ lastWrite.offset = 500 /\ lastWrite.len = 10
    /\ lastWrite.ret = 10
    /\ last.out = DataSeq(lastWrite.seed, 10)

\* C3: after an accepted write at offset 0 with n bytes, every byte of
\* custom_value at index n..capacity-1 is zero whatever the buffer held before,
\* so a later read that starts at or past n returns only zero bytes.
C3_ZeroOffsetWriteClearsTail ==
    /\ (Accepted(last) /\ last.offset = 0)
         => \A i \in last.len..(CustomValueSize - 1) : Byte(custom_value, i) = 0
    /\ (last.kind = "read" /\ last.ret # InvalidOffset
            /\ Accepted(lastWrite) /\ lastWrite.offset = 0
            /\ last.offset >= lastWrite.len)
         => AllZero(last.out)

\* C3 witness: write(0, 10 bytes) over a buffer that held non-zero bytes past
\* index 10, then read(20, 10) returned ten zero bytes.
C3_Witness ==
    /\ last.kind = "read" /\ last.offset = 20 /\ last.len = 10
    /\ Accepted(lastWrite) /\ lastWrite.offset = 0 /\ lastWrite.len = 10
    /\ lastWrite.stale
    /\ Len(last.out) = 10 /\ AllZero(last.out)

\* C4: read_custom(offset, maxLen) with offset <= capacity returns exactly
\* min(maxLen, capacity - offset) bytes, those of custom_value from offset on
\* (none at offset = capacity, which is no error); with offset > capacity it
\* fails with InvalidOffset; it never returns more than capacity - offset bytes.
C4_ReadReturnsBoundedSlice ==
    last.kind = "read" =>
        IF last.offset > CustomValueSize
        THEN last.ret = InvalidOffset /\ last.out = <<>>
        ELSE /\ last.ret = Min(last.len, CustomValueSize - last.offset)
             /\ Len(last.out) = last.ret
             /\ Len(last.out) <= CustomValueSize - last.offset
             /\ \A k \in 1..Len(last.out) :
                    last.out[k] = Byte(custom_value, last.offset + k - 1)

\* C4 witness: a read at offset = capacity asking for 10 bytes returned none,
\* and a buffer that a write has changed was read.
C4_Witness ==
    /\ last.kind = "read" /\ last.offset = CustomValueSize /\ last.len = 10
    /\ last.ret = 0 /\ last.out = <<>>
    /\ Accepted(lastWrite)

(***************************************************************************)
(* ConnectionTracker and main(): the claims                                *)
(***************************************************************************)
DisconnectedFlag == STATE_DISCONNECTED \in state
ConnectedFlag == STATE_CONNECTED \in state

Bit(b) == IF b THEN 1 ELSE 0

\* C5: the loop never issues more advertising restarts than disconnect events
\* were delivered, and each run of disconnect events that set the flag before
\* one test-and-clear (one event, two or more) accounts for exactly one restart:
\* the one issued, the one about to be issued, or the flag still set.
C5_NoDuplicateRestarts ==
    /\ log.restarts <= log.discEvents
    /\ log.restarts + Bit(pc = "loop_adv") + Bit(DisconnectedFlag) = log.batches

\* C5 witness: two disconnect events set the flag before the loop's
\* test-and-clear, one restart was issued for both, and the loop is waiting
\* again with the flag clear and the semaphore empty.
C5_Witness ==
    /\ log.discEvents = 2 /\ log.flagSets = 2 /\ log.batches = 1
    /\ log.served = 2 /\ log.restarts = 1
    /\ pc = "loop_take" /\ semmari = 0 /\ ~DisconnectedFlag /\ cb = Idle

\* C6: with main() and the entered callbacks running whenever they can, every
\* disconnect event is eventually consumed by a restart the loop issues, unless
\* an advertising start has failed; and the loop does not stay blocked on the
\* semaphore while DisconnectedFlag is set.
C6_NoMissedRestarts ==
    /\ \A k \in 1..MaxDisconnects :
         (log.discEvents >= k) ~> (log.served >= k \/ log.advFailed)
    /\ (pc = "loop_take" /\ DisconnectedFlag) ~> (pc # "loop_take")

\* C6 witness: two disconnect events, each consumed by a restart of its own,
\* and no advertising start has failed.
C6_Witness ==
    /\ log.discEvents = 2 /\ log.batches = 2
    /\ log.served = 2 /\ log.restarts = 2
    /\ ~log.advFailed

\* C7: a disconnect event issues its unpair request before it sets
\* DisconnectedFlag and before it gives the semaphore, so every flag set that a
\* restart has consumed, or is about to, had its unpair request issued first.
C7_UnpairBeforeFlagAndSignal ==
    /\ log.flagSets <= log.unpairs
    /\ log.gives <= log.unpairs
    /\ log.served + log.consumed + log.pending = log.flagSets
    /\ log.served + log.consumed <= log.unpairs

\* C7 witness: the loop is about to restart advertising for three disconnect
\* events it consumed at once, each of which had issued its unpair request.
C7_Witness ==
    /\ pc = "loop_adv" /\ log.consumed = 3
    /\ log.unpairs = 3

\* C8: a connect event with err # 0 sets no flag, requests no parameter update
\* and leaves DisconnectedFlag and the semaphore as they were; ConnectedFlag is
\* set and a parameter update requested only for a connect event with err = 0.
C8_FailedConnectDoesNothing ==
    /\ [](/\ ConnectedFlag => log.connOk > 0
          /\ log.connSets <= log.connOk
          /\ log.paramUpdates <= log.connOk)
    /\ [][log'.connFail > log.connFail =>
            /\ state' = state
            /\ semmari' = semmari
            /\ log'.paramUpdates = log.paramUpdates
            /\ log'.connSets = log.connSets
            /\ cb' = Idle]_vars

\* C8 witness: two connect events failed, ConnectedFlag is clear and no
\* parameter update was requested.
C8_Witness ==
    /\ log.connFail = 2 /\ log.connOk = 0
    /\ ~ConnectedFlag /\ log.paramUpdates = 0 /\ cb = Idle

\* C9: once a bt_le_adv_start has returned an error, at boot or in the loop,
\* main() has returned and no advertising start is issued any more, whatever
\* disconnect events follow.
C9_AdvertisingFailureIsFinal ==
    /\ [](log.advFailed => pc = "exited")
    /\ [][log.advFailed =>
            (pc' = "exited" /\ log'.advStarts = log.advStarts)]_vars

\* C9 witness: a restart failed, main() returned, and a later disconnect event
\* set the flag and gave the semaphore.
C9_Witness ==
    /\ log.advFailed /\ log.restarts >= 1 /\ pc = "exited"
    /\ log.setsAfterExit >= 1 /\ DisconnectedFlag /\ semmari = 1 /\ cb = Idle

\* C10: when the stack's bring-up fails, reported by bt_enable's return value
\* or by a non-zero err passed to bt_ready, no service is registered and no
\* advertising start is issued.
C10_BringUpFailureIsFatal ==
    (log.enableErr \/ log.readyErr) => (log.registered = 0 /\ log.advStarts = 0)

\* C11: when registering the custom service or the inclusion service fails, the
\* process terminates and no advertising start is ever issued.
C11_RegistrationFailureIsFatal ==
    log.regFailed => log.advStarts = 0

\* C12: whatever bt_unpair returns, a disconnect event issues it once, then sets
\* DisconnectedFlag and gives the semaphore; whatever bt_conn_le_param_update
\* returns, a successful connect event sets ConnectedFlag and issues the update
\* once. Nothing is retried.
C12_BestEffortFailuresDoNotStopTheFlow ==
    /\ log.unpairs <= log.discEvents
    /\ log.paramUpdates <= log.connOk
    /\ cb = Idle =>
          /\ log.unpairs = log.discEvents
          /\ log.flagSets = log.discEvents
          /\ log.gives = log.discEvents
          /\ log.connSets = log.connOk
          /\ log.paramUpdates = log.connOk

\* C12 witness: an unpair request and a parameter update have failed, and the
\* handlers have run to their end: the flags are set and the semaphore given.
C12_Witness ==
    /\ log.unpairFailed /\ log.paramFailed /\ cb = Idle
    /\ log.discEvents = 1 /\ log.flagSets = 1 /\ log.gives = 1 /\ log.unpairs = 1
    /\ log.connOk = 1 /\ log.paramUpdates = 1
    /\ ConnectedFlag /\ DisconnectedFlag /\ semmari = 1

\* C14: every bt_le_adv_start call, the one at boot and every one of the loop,
\* is made with the same parameter set, the array ad as advertising data and
\* the array sd as scan response, both constant.
C14_SameAdvertisingArguments ==
    /\ log.advArgs \subseteq {AdvCall("BT_LE_ADV_CONN_FAST_1", ad, sd)}
    /\ log.advStarts > 0 => Cardinality(log.advArgs) = 1

\* C14 witness: advertising was started at boot and restarted twice by the
\* loop, each time with the same arguments.
C14_Witness ==
    /\ log.advStarts = 3 /\ log.restarts = 2
    /\ log.advArgs = {AdvCall("BT_LE_ADV_CONN_FAST_1", ad, sd)}

Call(name, args) == [call |-> name, args |-> args]

\* C15: whatever the connection and the passkey, the passkey-entry callback
\* answers with one bt_conn_auth_passkey_entry(conn, 0), the passkey-confirm
\* callback with one bt_conn_auth_passkey_confirm(conn), the pairing-confirm
\* callback with one bt_conn_auth_pairing_confirm(conn); none of the three
\* changes state, semmari or custom_value.
C15_PairingRepliesAreFixed ==
    /\ [](/\ auth.req = "passkey_entry" =>
                auth.replies = <<Call("bt_conn_auth_passkey_entry", <<auth.conn, 0>>)>>
          /\ auth.req = "passkey_confirm" =>
                auth.replies = <<Call("bt_conn_auth_passkey_confirm", <<auth.conn>>)>>
          /\ auth.req = "pairing_confirm" =>
                auth.replies = <<Call("bt_conn_auth_pairing_confirm", <<auth.conn>>)>>)
    /\ [][(AuthPasskeyEntry \/ AuthPasskeyConfirm \/ AuthPairingConfirm)
            => UNCHANGED <<state, semmari, custom_value>>]_vars

\* C15 witness: a passkey other than 0 was displayed for confirmation while a
\* disconnect is pending, and it was confirmed.
C15_Witness ==
    /\ auth.req = "passkey_confirm" /\ auth.args = <<123456>> /\ auth.conn = 2
    /\ Len(auth.replies) = 1
    /\ state = {STATE_CONNECTED, STATE_DISCONNECTED} /\ semmari = 1

\* C16, as stated: every callback that sets a flag gives the semaphore, so
\* once connected() and disconnected() have returned each has given as often
\* as it set its flag.
C16_EveryFlagSetIsSignalled ==
    cb = Idle => /\ log.gives = log.flagSets
                 /\ log.connGives = log.connSets

\* C16, amended: disconnected() gives the semaphore once after each time it
\* sets STATE_DISCONNECTED; connected() sets STATE_CONNECTED and never gives.
C16_OnlyDisconnectedSignals ==
    /\ log.gives <= log.flagSets
    /\ log.flagSets <= log.gives + 1
    /\ cb = Idle => log.gives = log.flagSets
    /\ log.connGives = 0
    /\ (pc = "loop_take" /\ semmari > 0) => log.gives > 0

\* C16 witness: one connect and one disconnect have been handled to the end;
\* the semaphore was given once, by disconnected().
C16_Witness ==
    /\ cb = Idle /\ log.connSets = 1 /\ log.flagSets = 1
    /\ log.gives = 1 /\ log.connGives = 0
    /\ state = {STATE_CONNECTED, STATE_DISCONNECTED} /\ semmari = 1

\* C17: a step of main() never adds a bit to state; a step of a callback
\* (connected, disconnected, bt_ready, pairing, subscription change) never
\* removes one; the only step that removes a bit is main()'s
\* atomic_test_and_clear_bit at main.c:219, which removes STATE_DISCONNECTED
\* and branches on the value it read in that same step.
C17_FlagOwnership ==
    [][/\ MainStep => state' \subseteq state
       /\ (CbStep \/ CbEvent \/ PolicyEvent) => state \subseteq state'
       /\ state' # state /\ state \subseteq state' =>
             /\ cb.fn \in {"connected", "disconnected"}
             /\ cb' # cb /\ pc' = pc
       /\ state' # state /\ state' \subseteq state =>
             /\ pc = "loop_test" /\ pc' = "loop_adv" /\ cb' = cb
             /\ state \ state' = {STATE_DISCONNECTED}
       /\ pc = "loop_test" /\ pc' # pc =>
             /\ state' = state \ {STATE_DISCONNECTED}
             /\ pc' = (IF STATE_DISCONNECTED \in state THEN "loop_adv" ELSE "loop_take")]_vars

\* C17 witness: both flags were set by callbacks, main() has just cleared
\* STATE_DISCONNECTED, and pairing and subscription callbacks have run.
C17_Witness ==
    /\ pc = "loop_adv" /\ log.consumed = 1 /\ state = {STATE_CONNECTED}
    /\ hrf_ntf_enabled /\ auth.req = "pairing_confirm"

\* C19: STATE_CONNECTED is clear at boot, is set by the connected() of the
\* first successful connect event and stays set for ever: no step clears it,
\* so after a connect, a disconnect and the restart of advertising the bitmap
\* is not the empty one of boot.
C19_ConnectedFlagIsMonotone ==
    /\ ~ConnectedFlag
    /\ [][ConnectedFlag => ConnectedFlag']_vars
    /\ [][(~ConnectedFlag /\ ConnectedFlag') =>
             (cb.fn = "connected" /\ log.connOk = 1 /\ log.connSets = 0)]_vars
    /\ [](ConnectedFlag <=> log.connSets > 0)
    /\ []((cb = Idle /\ log.connOk > 0) => ConnectedFlag)
    /\ []((log.connOk > 0 /\ log.restarts > 0 /\ cb = Idle) => state # {})

\* C19 witness: one connect, one disconnect and the restart it asked for are
\* over, main() waits again, and the bitmap holds STATE_CONNECTED.
C19_Witness ==
    /\ pc = "loop_take" /\ semmari = 0 /\ cb = Idle
    /\ log.connOk = 1 /\ log.discEvents = 1 /\ log.restarts = 1
    /\ state = {STATE_CONNECTED}

\* C20: the count of semmari is always 0 or 1: a k_sem_give leaves it at 1
\* whether it was 0 or 1; and when main() wakes up and finds
\* STATE_DISCONNECTED clear it calls no bt_le_adv_start and goes back to
\* k_sem_take.
C20_BinarySemaphore ==
    /\ [](semmari \in {0, 1})
    /\ [][(Running("give") /\ cb' # cb) => semmari' = 1]_vars
    /\ [][(pc = "loop_test" /\ pc' # pc /\ ~DisconnectedFlag) =>
             /\ pc' = "loop_take"
             /\ log'.advStarts = log.advStarts
             /\ state' = state /\ semmari' = semmari]_vars

\* C20 witness: a disconnect gave the semaphore while its count was 1, and a
\* later wake-up of main() found STATE_DISCONNECTED clear; main() waits again.
C20_Witness ==
    /\ log.saturated /\ log.spurious
    /\ pc = "loop_take" /\ semmari = 0 /\ ~DisconnectedFlag
    /\ log.discEvents = 3 /\ log.restarts = 1

(***************************************************************************)
(* AttributeStore: further claims                                          *)
(***************************************************************************)
InBounds(b) == DOMAIN b \subseteq 0..(CustomValueSize - 1)

\* C13: whatever writes were dispatched, with offset and length anywhere in
\* 16 bits, custom_value holds no byte at an index outside 0..capacity-1, and a
\* write that was accepted has offset + len <= 512 computed without wrap-around.
C13_NoStoreOutsideBuffer ==
    /\ InBounds(custom_value)
    /\ Accepted(last) => last.offset + last.len <= CustomValueSize
    /\ (last.kind = "write" /\ last.offset + last.len > CustomValueSize)
         => last.ret = InvalidOffset

\* C13 witness: after an accepted fragment, a write with offset 65535 and 64
\* bytes, whose 16-bit sum 63 would pass the check, was rejected.
C13_Witness ==
    /\ nWrites = 2
    /\ last.kind = "write" /\ last.offset = 65535 /\ last.len = 64
    /\ (last.offset + last.len) % 65536 <= CustomValueSize
    /\ last.ret = InvalidOffset
    /\ last.before # InitialValue /\ InBounds(custom_value)


\* buffer b holds the len bytes of seed at its start and zeros after them:
\* what an accepted write(0, A) leaves
HoldsOnly(b, seed, len) ==
    \A i \in 0..(CustomValueSize - 1) :
        Byte(b, i) = (IF i < len THEN DataByte(seed, i) ELSE 0)

\* C18: an accepted write at an offset other than 0 stores its bytes at
\* offset..offset+len-1 and leaves every other byte as it was; so after
\* write(0, A) and write(len(A), B), both accepted, a read of
\* len(A) + len(B) bytes at offset 0 returns A followed by B.
C18_FragmentWritesAccumulate ==
    /\ (Accepted(last) /\ last.offset # 0) =>
          \A i \in 0..(CustomValueSize - 1) :
              Byte(custom_value, i) =
                  (IF last.offset <= i /\ i < last.offset + last.len
                   THEN DataByte(last.seed, i - last.offset)
                   ELSE Byte(last.before, i))
    /\ \A seedA \in Seeds :
          (Accepted(last) /\ last.offset # 0
              /\ HoldsOnly(last.before, seedA, last.offset)) =>
            read_custom(custom_value, last.offset + last.len, 0) =
                [ret |-> last.offset + last.len,
                 out |-> DataSeq(seedA, last.offset) \o DataSeq(last.seed, last.len)]

\* C18 witness: write(0, 20 bytes) then write(20, 10 bytes), both accepted.
C18_Witness ==
    /\ nWrites = 2 /\ last.kind = "write"
    /\ last.offset = 20 /\ last.len = 10 /\ last.ret = 10
    /\ HoldsOnly(last.before, 1, 20) /\ last.seed = 2


=============================================================================
